---- MODULE Spec2Model ----
(***************************************************************************)
(* Matchmaking engine of jinine/game-server: the waiting queue             *)
(* (queue_collection), the match records (matches_collection) and the      *)
(* request handlers of routes/matchmaking.py, each handler split at its    *)
(* awaited store calls.  One awaited store call is one atomic step; the    *)
(* handlers of different requests interleave between those steps.          *)
(***************************************************************************)
EXTENDS Integers, Sequences, FiniteSets, TLC

\* ---------------------------------------------------------------- constants
MAX_SCORE_DIFFERENCE == 100
QUEUE_TIMEOUT_MINUTES == 5
EXPANDED_SCORE_DIFFERENCE == 200

\* ------------------------------------------------------------------- bounds
MaxOps == 3         \* requests started in one behaviour, overlapping
MaxOpsSeq == 4      \* requests started in one behaviour, one at a time
MaxFaults == 1      \* store calls that raise in one behaviour

Players == {"A", "B", "C"}
\* The join requests tried: <<player_id, score>>.  A and B are within
\* MAX_SCORE_DIFFERENCE of each other (exactly at it for 0 and 100), C is within
\* EXPANDED_SCORE_DIFFERENCE of a score of 100 only, and -1 is an invalid score.
JoinInputs == {<<"A", -1>>, <<"A", 0>>, <<"A", 100>>, <<"B", 100>>, <<"C", 300>>}
\* The requests in flight at once, and the one used when they do not overlap.
Reqs == {1, 2}
SeqReqs == {1}
\* The instants (minutes) at which the clock is read: at the last one an entry
\* admitted at 0 is older than QUEUE_TIMEOUT_MINUTES and an entry admitted at 1
\* is exactly that old.
Instants == {0, 1, QUEUE_TIMEOUT_MINUTES + 1}

NoPlayer == "none"
NoMatch == 0
NoTime == -1

VARIABLES
  queue,    \* queue_collection: the set of queue documents
  matches,  \* matches_collection: sequence of match documents, _id = index
  now,      \* datetime.utcnow(), in minutes
  req,      \* the requests in flight: handler, position in it, locals, response
  budget,   \* requests that may still start
  faults    \* store calls that have raised so far

vars == <<queue, matches, now, req, budget, faults>>

\* ------------------------------------------------------------ store queries
\* find_one / delete_one filter {"player_id": player_id}
DocsOf(player_id) == {e \in queue : e.player_id = player_id}

Abs(x) == IF x < 0 THEN -x ELSE x

\* calculate_score_difference
calculate_score_difference(player1_score, player2_score) ==
  Abs(player1_score - player2_score)

\* A search filter that forgets to exclude the requester.
MatchFilterWithSelf(q, player_id, score, max_difference) ==
  {e \in q : /\ e.status = "waiting"
             /\ e.score >= score - max_difference
             /\ e.score <= score + max_difference}

\* The filter of find_match's find_one calls, for a window of max_difference.
MatchFilter(q, player_id, score, max_difference) ==
  {e \in q : /\ e.player_id # player_id
             /\ e.status = "waiting"
             /\ e.score >= score - max_difference
             /\ e.score <= score + max_difference}

\* A first query that already uses the expanded window.
Tier1Expanded(q, player_id, score) ==
  MatchFilter(q, player_id, score, EXPANDED_SCORE_DIFFERENCE)

\* First query of find_match (tier 1).
Tier1(q, player_id, score) == MatchFilter(q, player_id, score, MAX_SCORE_DIFFERENCE)

\* A second search no wider than the first.
Tier2Narrow(q, player_id, score) == MatchFilter(q, player_id, score, MAX_SCORE_DIFFERENCE)

\* Second query of find_match (tier 2, expanded criteria).
Tier2(q, player_id, score) == MatchFilter(q, player_id, score, EXPANDED_SCORE_DIFFERENCE)

\* The queue document add_to_queue writes.
Entry(player_id, score, t) ==
  [player_id |-> player_id, score |-> score, joined_at |-> t, status |-> "waiting"]

\* An admission that inserts without looking for the player's document.
InsertAlways(q, player_id, score, t) == q \cup {Entry(player_id, score, t)}

\* update_one({"player_id": p}, {"$set": entry}, upsert=True): the first document
\* of the player is overwritten; one is inserted when there is none.
Upsert(q, player_id, score, t) ==
  LET old == {e \in q : e.player_id = player_id} IN
    IF old = {}
      THEN q \cup {Entry(player_id, score, t)}
      ELSE (q \ {CHOOSE e \in old : TRUE}) \cup {Entry(player_id, score, t)}

\* A removal whose filter matches every document.
DeleteEverything(q, player_id) == {{}}

\* A removal that deletes nothing.
DeleteNothing(q, player_id) == {q}

\* delete_one({"player_id": p}): the possible collections afterwards
DeleteOne(q, player_id) ==
  IF \E e \in q : e.player_id = player_id
    THEN {q \ {e} : e \in {d \in q : d.player_id = player_id}}
    ELSE {q}

\* A sweep whose comparison is $lte.
StaleInclusive(q, t) == {e \in q : e.joined_at <= t - QUEUE_TIMEOUT_MINUTES}

\* delete_many({"joined_at": {"$lt": timeout_threshold}})
Stale(q, t) == {e \in q : e.joined_at < t - QUEUE_TIMEOUT_MINUTES}

\* A rank that counts the entries joined at the same instant too.
RankInclusive(q, joined_at) == Cardinality({e \in q : e.joined_at <= joined_at}) + 1

\* get_queue_position: count_documents({"joined_at": {"$lt": ...}}) + 1
Rank(q, joined_at) == Cardinality({e \in q : e.joined_at < joined_at}) + 1

\* A validation that forgets the score test.
ValidateMembershipOnly(in_queue, score) == ~in_queue

\* validate_queue_entry, given the answer of is_player_in_queue
validate_queue_entry(in_queue, score) ==
  IF in_queue THEN FALSE ELSE IF score < 0 THEN FALSE ELSE TRUE

\* A participant test that looks at player1_id only when rejecting.
IsParticipantLoose(m, player_id) == player_id # m.player1_id

\* cancel_match's participant test
IsParticipant(m, player_id) == player_id \in {m.player1_id, m.player2_id}

\* ------------------------------------------------------------------ requests
Idle == [op |-> "idle", pc |-> "idle", player_id |-> NoPlayer, score |-> 0,
         match_id |-> NoMatch, opponent |-> NoPlayer, joined_at |-> NoTime,
         result |-> "none", position |-> 0, queue_size |-> 0,
         cleaned_entries |-> 0]

Set(r, rec) == req' = [req EXCEPT ![r] = rec]
At(r, op, pc) == req[r].op = op /\ req[r].pc = pc
\* The handler returns: its locals are gone, the response stays.
Done(rec, result) == [rec EXCEPT !.pc = "done", !.result = result, !.joined_at = NoTime]
\* The slot is free: no request yet, or the last one has been answered.
Free(r) == req[r].pc \in {"idle", "done"}

\* A store call raises.
Fault == faults < MaxFaults /\ faults' = faults + 1
\* A store call returns.
NoFault == faults' = faults

\* The match document create_match inserts.
NewMatch(player1_id, player2_id, t) ==
  [player1_id |-> player1_id, player2_id |-> player2_id, created_at |-> t,
   status |-> "active", cancelled_at |-> NoTime]

\* The state after startup_event: both collections empty, no request yet.
Start(n) ==
  /\ queue = {}
  /\ matches = <<>>
  /\ now = 0
  /\ req = [r \in Reqs |-> Idle]
  /\ budget = n
  /\ faults = 0

Init == Start(MaxOps)

\* Time passes: the clock is next read at a later instant.
Tick ==
  /\ \E t \in Instants : t > now /\ now' = t
  /\ UNCHANGED <<queue, matches, req, budget, faults>>

\* POST /matchmaking/queue arrives.
JoinStart(r) ==
  /\ Free(r)
  /\ budget > 0
  /\ budget' = budget - 1
  /\ \E in \in JoinInputs :
       Set(r, [Idle EXCEPT !.op = "join", !.pc = "validate",
                           !.player_id = in[1], !.score = in[2]])
  /\ UNCHANGED <<queue, matches, now, faults>>

\* join_queue: validate_queue_entry -> is_player_in_queue (find_one), score test.
JoinValidate(r) ==
  /\ At(r, "join", "validate")
  /\ \E in_queue \in BOOLEAN :
       /\ \/ Fault /\ in_queue = FALSE
          \/ NoFault /\ in_queue = (DocsOf(req[r].player_id) # {})
       /\ IF validate_queue_entry(in_queue, req[r].score)
            THEN Set(r, [req[r] EXCEPT !.pc = "add"])
            ELSE Set(r, Done(req[r], "invalid"))
  /\ UNCHANGED <<queue, matches, now, budget>>

\* An admission whose failure is not reported: the handler goes on.
JoinAddUnreported(r) ==
  /\ At(r, "join", "add")
  /\ \/ /\ Fault
        /\ UNCHANGED queue
     \/ /\ NoFault
        /\ queue' = Upsert(queue, req[r].player_id, req[r].score, now)
  /\ Set(r, [req[r] EXCEPT !.pc = "find1"])
  /\ UNCHANGED <<matches, now, budget>>

\* join_queue: add_to_queue (update_one with upsert).
JoinAdd(r) ==
  /\ At(r, "join", "add")
  /\ \/ /\ Fault
        /\ Set(r, Done(req[r], "failed"))
        /\ UNCHANGED queue
     \/ /\ NoFault
        /\ queue' = Upsert(queue, req[r].player_id, req[r].score, now)
        /\ Set(r, [req[r] EXCEPT !.pc = "find1"])
  /\ UNCHANGED <<matches, now, budget>>

\* join_queue: find_match, first find_one (within MAX_SCORE_DIFFERENCE).
JoinFind1(r) ==
  /\ At(r, "join", "find1")
  /\ \/ /\ Fault
        /\ Set(r, [req[r] EXCEPT !.pc = "pos1"])
     \/ /\ NoFault
        /\ LET c == Tier1(queue, req[r].player_id, req[r].score) IN
             IF c = {}
               THEN Set(r, [req[r] EXCEPT !.pc = "find2"])
               ELSE \E e \in c :
                      Set(r, [req[r] EXCEPT !.pc = "insert", !.opponent = e.player_id])
  /\ UNCHANGED <<queue, matches, now, budget>>

\* join_queue: find_match, second find_one (within EXPANDED_SCORE_DIFFERENCE).
JoinFind2(r) ==
  /\ At(r, "join", "find2")
  /\ \/ /\ Fault
        /\ Set(r, [req[r] EXCEPT !.pc = "pos1"])
     \/ /\ NoFault
        /\ LET c == Tier2(queue, req[r].player_id, req[r].score) IN
             IF c = {}
               THEN Set(r, [req[r] EXCEPT !.pc = "pos1"])
               ELSE \E e \in c :
                      Set(r, [req[r] EXCEPT !.pc = "insert", !.opponent = e.player_id])
  /\ UNCHANGED <<queue, matches, now, budget>>

\* join_queue: create_match, insert_one.  A raise skips both removals and
\* create_match returns None; join_queue still answers "matched".
JoinInsert(r) ==
  /\ At(r, "join", "insert")
  /\ \/ /\ Fault
        /\ Set(r, Done(req[r], "matched"))
        /\ UNCHANGED matches
     \/ /\ NoFault
        /\ matches' = Append(matches, NewMatch(req[r].player_id, req[r].opponent, now))
        /\ Set(r, [req[r] EXCEPT !.pc = "rm1", !.match_id = Len(matches) + 1])
  /\ UNCHANGED <<queue, now, budget>>

\* remove_from_queue: delete_one; a raise is swallowed (returns False).
RemoveStep(player_id) ==
  \/ Fault /\ UNCHANGED queue
  \/ NoFault /\ queue' \in DeleteOne(queue, player_id)

\* join_queue: create_match, remove_from_queue(player1_id).
JoinRemove1(r) ==
  /\ At(r, "join", "rm1")
  /\ RemoveStep(req[r].player_id)
  /\ Set(r, [req[r] EXCEPT !.pc = "rm2"])
  /\ UNCHANGED <<matches, now, budget>>

\* join_queue: create_match, remove_from_queue(player2_id), then the response.
JoinRemove2(r) ==
  /\ At(r, "join", "rm2")
  /\ RemoveStep(req[r].opponent)
  /\ Set(r, Done(req[r], "matched"))
  /\ UNCHANGED <<matches, now, budget>>

\* join_queue: get_queue_position, find_one of the player's own entry.
JoinPos1(r) ==
  /\ At(r, "join", "pos1")
  /\ \/ /\ Fault
        /\ Set(r, [Done(req[r], "queued") EXCEPT !.position = -1])
     \/ /\ NoFault
        /\ IF DocsOf(req[r].player_id) = {}
             THEN Set(r, [Done(req[r], "queued") EXCEPT !.position = -1])
             ELSE \E e \in DocsOf(req[r].player_id) :
                    Set(r, [req[r] EXCEPT !.pc = "pos2", !.joined_at = e.joined_at])
  /\ UNCHANGED <<queue, matches, now, budget>>

\* join_queue: get_queue_position, count_documents of the earlier entries.
JoinPos2(r) ==
  /\ At(r, "join", "pos2")
  /\ \/ /\ Fault
        /\ Set(r, [Done(req[r], "queued") EXCEPT !.position = -1])
     \/ /\ NoFault
        /\ Set(r, [Done(req[r], "queued") EXCEPT
                     !.position = Rank(queue, req[r].joined_at)])
  /\ UNCHANGED <<queue, matches, now, budget>>

\* GET /matchmaking/queue/status/{player_id} arrives.
StatusStart(r) ==
  /\ Free(r)
  /\ budget > 0
  /\ budget' = budget - 1
  /\ \E p \in Players :
       Set(r, [Idle EXCEPT !.op = "status", !.pc = "pos1", !.player_id = p])
  /\ UNCHANGED <<queue, matches, now, faults>>

\* get_queue_status: get_queue_position, find_one of the player's entry;
\* position -1 is answered 404.
StatusPos1(r) ==
  /\ At(r, "status", "pos1")
  /\ \/ /\ Fault
        /\ Set(r, [Done(req[r], "notfound") EXCEPT !.position = -1])
     \/ /\ NoFault
        /\ IF DocsOf(req[r].player_id) = {}
             THEN Set(r, [Done(req[r], "notfound") EXCEPT !.position = -1])
             ELSE \E e \in DocsOf(req[r].player_id) :
                    Set(r, [req[r] EXCEPT !.pc = "pos2", !.joined_at = e.joined_at])
  /\ UNCHANGED <<queue, matches, now, budget>>

\* get_queue_status: get_queue_position, count_documents of the earlier entries.
StatusPos2(r) ==
  /\ At(r, "status", "pos2")
  /\ \/ /\ Fault
        /\ Set(r, [Done(req[r], "notfound") EXCEPT !.position = -1])
     \/ /\ NoFault
        /\ Set(r, [req[r] EXCEPT !.pc = "size", !.joined_at = NoTime,
                                 !.position = Rank(queue, req[r].joined_at)])
  /\ UNCHANGED <<queue, matches, now, budget>>

\* get_queue_status: get_queue_size (count_documents), 0 when it raises.
StatusSize(r) ==
  /\ At(r, "status", "size")
  /\ \/ /\ Fault
        /\ Set(r, Done(req[r], "success"))
     \/ /\ NoFault
        /\ Set(r, [Done(req[r], "success") EXCEPT
                     !.queue_size = Cardinality({e \in queue : e.status = "waiting"})])
  /\ UNCHANGED <<queue, matches, now, budget>>

\* DELETE /matchmaking/queue/{player_id}: leave_queue -> remove_from_queue.
Leave(r) ==
  /\ Free(r)
  /\ budget > 0
  /\ budget' = budget - 1
  /\ \E p \in Players :
       \/ /\ Fault
          /\ UNCHANGED queue
          /\ Set(r, Done([Idle EXCEPT !.op = "leave", !.player_id = p], "notfound"))
       \/ /\ NoFault
          /\ queue' \in DeleteOne(queue, p)
          /\ Set(r, Done([Idle EXCEPT !.op = "leave", !.player_id = p],
                         IF DocsOf(p) # {} THEN "success" ELSE "notfound"))
  /\ UNCHANGED <<matches, now>>

\* POST /matchmaking/match/{match_id}/cancel arrives.
CancelStart(r) ==
  /\ Free(r)
  /\ budget > 0
  /\ budget' = budget - 1
  /\ \E m \in 1..(Len(matches) + 1), p \in Players :
       Set(r, [Idle EXCEPT !.op = "cancel", !.pc = "read", !.match_id = m, !.player_id = p])
  /\ UNCHANGED <<queue, matches, now, faults>>

\* cancel_match: get_match_details (find_one), then the participant test.
CancelRead(r) ==
  /\ At(r, "cancel", "read")
  /\ \/ /\ Fault
        /\ Set(r, Done(req[r], "notfound"))
     \/ /\ NoFault
        /\ Set(r, IF req[r].match_id \notin DOMAIN matches
                    THEN Done(req[r], "notfound")
                    ELSE IF ~IsParticipant(matches[req[r].match_id], req[r].player_id)
                      THEN Done(req[r], "forbidden")
                      ELSE [req[r] EXCEPT !.pc = "update"])
  /\ UNCHANGED <<queue, matches, now, budget>>

\* An update that replaces the document instead of setting two fields.
CancelledReplace(m, t) ==
  [m EXCEPT !.status = "cancelled", !.cancelled_at = t,
            !.player1_id = NoPlayer, !.player2_id = NoPlayer]

\* The $set of cancel_match's update_one.
Cancelled(m, t) == [m EXCEPT !.status = "cancelled", !.cancelled_at = t]

\* A cancellation that puts the two players back in the queue.
CancelUpdateRequeue(r) ==
  /\ At(r, "cancel", "update")
  /\ \/ /\ Fault
        /\ Set(r, Done(req[r], "failed"))
        /\ UNCHANGED <<queue, matches>>
     \/ /\ NoFault
        /\ matches' = [matches EXCEPT ![req[r].match_id] = Cancelled(@, now)]
        /\ queue' = Upsert(Upsert(queue, matches[req[r].match_id].player1_id, 0, now),
                           matches[req[r].match_id].player2_id, 0, now)
        /\ Set(r, Done(req[r], "success"))
  /\ UNCHANGED <<now, budget>>

\* cancel_match: update_one on the match, then the response.
CancelUpdate(r) ==
  /\ At(r, "cancel", "update")
  /\ \/ /\ Fault
        /\ Set(r, Done(req[r], "failed"))
        /\ UNCHANGED matches
     \/ /\ NoFault
        /\ matches' = [matches EXCEPT ![req[r].match_id] = Cancelled(@, now)]
        /\ Set(r, Done(req[r], "success"))
  /\ UNCHANGED <<queue, now, budget>>

\* GET /matchmaking/queue/cleanup: clean_stale_queue_entries (delete_many).
Cleanup(r) ==
  /\ Free(r)
  /\ budget > 0
  /\ budget' = budget - 1
  /\ \/ /\ Fault
        /\ UNCHANGED queue
        /\ Set(r, Done([Idle EXCEPT !.op = "cleanup"], "success"))
     \/ /\ NoFault
        /\ queue' = queue \ Stale(queue, now)
        /\ Set(r, [Done([Idle EXCEPT !.op = "cleanup"], "success") EXCEPT
                     !.cleaned_entries = Cardinality(Stale(queue, now))])
  /\ UNCHANGED <<matches, now>>

Step(r) ==
  \/ JoinStart(r) \/ JoinValidate(r) \/ JoinAdd(r) \/ JoinFind1(r) \/ JoinFind2(r)
  \/ JoinInsert(r) \/ JoinRemove1(r) \/ JoinRemove2(r) \/ JoinPos1(r) \/ JoinPos2(r)
  \/ StatusStart(r) \/ StatusPos1(r) \/ StatusPos2(r) \/ StatusSize(r)
  \/ Leave(r) \/ CancelStart(r) \/ CancelRead(r) \/ CancelUpdate(r) \/ Cleanup(r)

Next == Tick \/ \E r \in Reqs : Step(r)

Spec == Init /\ [][Next]_vars

\* One request at a time.
NextSeq == Tick \/ \E r \in SeqReqs : Step(r)

InitSeq == Start(MaxOpsSeq)

SpecSeq == InitSeq /\ [][NextSeq]_vars

\* ------------------------------------------------------------------- claims
MatchPlayers(m) == {m.player1_id, m.player2_id}
InQueue(player_id) == DocsOf(player_id) # {}
JoinDone(r) == req[r].op = "join" /\ req[r].pc = "done"

\* C1: joins of N distinct players with pairwise compatible scores (within
\* MAX_SCORE_DIFFERENCE), started on the empty stores and run to their responses
\* under any interleaving with no store failure, leave exactly N \div 2 match
\* records, at most one queue entry, and no player in two match records.
\* Here N is the number of request slots and these joins are the only requests.
C1_ConcurrentJoinsPairOnce ==
  ( /\ budget = MaxOps - Cardinality(Reqs)
    /\ faults = 0
    /\ \A r \in Reqs : JoinDone(r) /\ req[r].score >= 0
    /\ \A r1, r2 \in Reqs :
         r1 # r2 => /\ req[r1].player_id # req[r2].player_id
                    /\ calculate_score_difference(req[r1].score, req[r2].score)
                         <= MAX_SCORE_DIFFERENCE )
  => /\ Len(matches) = Cardinality(Reqs) \div 2
     /\ Cardinality(queue) <= 1
     /\ \A i, j \in DOMAIN matches :
          i # j => MatchPlayers(matches[i]) \cap MatchPlayers(matches[j]) = {}

\* C2: in the state right after create_match inserts a match record, neither
\* of its two players has a queue entry.
C2_NoEntryWhenMatchInserted ==
  [][Len(matches') > Len(matches) =>
       \A e \in queue' : e.player_id \notin MatchPlayers(matches'[Len(matches')])]_vars

\* C3: in every reachable state every match record has two different players.
C3_MatchPlayersDiffer ==
  \A i \in DOMAIN matches : matches[i].player1_id # matches[i].player2_id

\* A join has answered "matched" and its match record is stored.
C3_Witness ==
  \E r \in Reqs : /\ JoinDone(r) /\ req[r].result = "matched"
                   /\ req[r].match_id \in DOMAIN matches

\* C4: in every reachable state the queue holds at most one entry per player.
C4_OneEntryPerPlayer ==
  \A p \in Players : Cardinality(DocsOf(p)) <= 1

\* Two joins of the same player have both passed validation and both written.
C4_Witness ==
  \E r1, r2 \in Reqs :
    /\ r1 # r2
    /\ req[r1].op = "join" /\ req[r2].op = "join"
    /\ req[r1].player_id = req[r2].player_id
    /\ req[r1].score # req[r2].score
    /\ req[r1].pc \in {"find1", "find2", "pos1", "pos2"}
    /\ req[r2].pc \in {"find1", "find2", "pos1", "pos2"}
    /\ InQueue(req[r1].player_id)

\* Request r takes a step of its handler.
Moves(r) == req'[r] # req[r]
\* Request r is started by this step, as operation op.
Starts(r, op) ==
  /\ budget' < budget
  /\ req'[r].op = op
  /\ \A r2 \in Reqs \ {r} : req'[r2] = req[r2]
\* The store call of this step returns (does not raise).
Returns == faults' = faults

\* C5: a cancel_match of a match that is already cancelled, by a participant
\* and with its store calls returning, answers success and leaves the match
\* record (status and cancelled_at included) as it was.
C5_SecondCancelIsNoOp ==
  [][\A r \in Reqs :
       ( /\ At(r, "cancel", "update") /\ Moves(r) /\ Returns
         /\ matches[req[r].match_id].status = "cancelled" )
       => /\ req'[r].pc = "done" /\ req'[r].result = "success"
          /\ matches' = matches]_vars

\* C6: a join with a negative score ends in the validation error and no step
\* of it changes the queue or the matches.
C6_NegativeScoreRejected ==
  [][\A r \in Reqs :
       ( /\ req[r].op = "join" /\ req[r].pc # "done" /\ req[r].score < 0
         /\ Moves(r) )
       => /\ req'[r].pc = "done" /\ req'[r].result = "invalid"
          /\ queue' = queue /\ matches' = matches]_vars

\* A join with a negative score has been rejected while the queue and the
\* matches hold records.
C6_Witness ==
  \E r \in Reqs :
    /\ JoinDone(r) /\ req[r].score < 0 /\ req[r].result = "invalid"
    /\ queue # {} /\ matches # <<>>

\* C7: a join whose validation runs while the player holds a queue entry ends
\* there in the validation error (so it never reaches the queue write).
C7_QueuedPlayerRejected ==
  [][\A r \in Reqs :
       ( /\ At(r, "join", "validate") /\ Moves(r)
         /\ InQueue(req[r].player_id) )
       => /\ req'[r].pc = "done" /\ req'[r].result = "invalid"]_vars

\* The other players' entries within d of score s.
Within(player_id, score, d) ==
  {e \in queue : e.player_id # player_id /\ Abs(e.score - score) <= d}

\* C8: an opponent search whose store calls return, run with no other request
\* in flight: if another entry is within MAX_SCORE_DIFFERENCE the first query
\* returns such an entry; if none is, the first query returns nothing and the
\* second returns an entry within EXPANDED_SCORE_DIFFERENCE when there is one;
\* if no other entry is within EXPANDED_SCORE_DIFFERENCE no opponent is returned.
C8_TierOnePreferred ==
  [][\A r \in Reqs :
       LET p == req[r].player_id
           s == req[r].score
           near == Within(p, s, MAX_SCORE_DIFFERENCE)
           far == Within(p, s, EXPANDED_SCORE_DIFFERENCE)
           found == req'[r].pc = "insert"
       IN  ( /\ req[r].op = "join" /\ req[r].pc \in {"find1", "find2"}
             /\ Moves(r) /\ Returns )
           => /\ near # {} =>
                   found /\ \E e \in near : e.player_id = req'[r].opponent
              /\ (near = {} /\ req[r].pc = "find1") => req'[r].pc = "find2"
              /\ (near = {} /\ far # {} /\ req[r].pc = "find2") =>
                   found /\ \E e \in far : e.player_id = req'[r].opponent
              /\ (far = {} /\ req[r].pc = "find2") =>
                   req'[r].pc = "pos1" /\ req'[r].opponent = NoPlayer]_vars

\* A search has returned a tier-1 entry while an entry that is only within
\* EXPANDED_SCORE_DIFFERENCE was waiting too.
C8_Witness ==
  \E r \in Reqs :
    /\ At(r, "join", "insert")
    /\ \E e \in Within(req[r].player_id, req[r].score, MAX_SCORE_DIFFERENCE) :
         e.player_id = req[r].opponent
    /\ Within(req[r].player_id, req[r].score, EXPANDED_SCORE_DIFFERENCE)
         \ Within(req[r].player_id, req[r].score, MAX_SCORE_DIFFERENCE) # {}

\* C9: no step of a cancel_match by a player who is neither player1_id nor
\* player2_id of an existing match changes a match record, and when its read
\* of the match returns it ends there with forbidden.
C9_NonParticipantForbidden ==
  [][\A r \in Reqs :
       ( /\ req[r].op = "cancel" /\ req[r].pc # "done" /\ Moves(r)
         /\ req[r].match_id \in DOMAIN matches
         /\ req[r].player_id # matches[req[r].match_id].player1_id
         /\ req[r].player_id # matches[req[r].match_id].player2_id )
       => /\ matches' = matches
          /\ Returns => req'[r].pc = "done" /\ req'[r].result = "forbidden"]_vars

\* A cancel by a non-participant has been refused and the match is active.
C9_Witness ==
  \E r \in Reqs :
    /\ req[r].op = "cancel" /\ req[r].pc = "done" /\ req[r].result = "forbidden"
    /\ req[r].match_id \in DOMAIN matches
    /\ req[r].player_id \notin MatchPlayers(matches[req[r].match_id])
    /\ matches[req[r].match_id].status = "active"

\* The entries whose age at instant t exceeds the timeout.
Older(t) == {e \in queue : t - e.joined_at > QUEUE_TIMEOUT_MINUTES}

\* C10: a sweep whose store call returns deletes exactly the entries whose age
\* (now - joined_at) exceeds QUEUE_TIMEOUT_MINUTES, keeps every entry of age at
\* most that, and answers the number of entries deleted.
C10_SweepRemovesExactlyStale ==
  [][\A r \in Reqs :
       (Starts(r, "cleanup") /\ Returns)
       => /\ queue' = queue \ Older(now)
          /\ req'[r].pc = "done" /\ req'[r].result = "success"
          /\ req'[r].cleaned_entries = Cardinality(Older(now))]_vars

\* A sweep has deleted an entry and kept one whose age is exactly the timeout.
C10_Witness ==
  \E r \in Reqs :
    /\ req[r].op = "cleanup" /\ req[r].pc = "done" /\ req[r].cleaned_entries > 0
    /\ \E e \in queue : now - e.joined_at = QUEUE_TIMEOUT_MINUTES

\* --------------------------------------------------------- scripted joins
\* The joins of the three-player scenario, in the order they arrive.
ScenarioScript == <<<<"A", 500>>, <<"B", 550>>, <<"C", 800>>>>

InitScenario == Start(Len(ScenarioScript))

\* POST /matchmaking/queue arrives with the next input of the script, once the
\* request before it has been answered.
ScenarioJoinStart(r) ==
  /\ Free(r)
  /\ budget > 0
  /\ budget' = budget - 1
  /\ LET in == ScenarioScript[Len(ScenarioScript) - budget + 1] IN
       Set(r, [Idle EXCEPT !.op = "join", !.pc = "validate",
                           !.player_id = in[1], !.score = in[2]])
  /\ UNCHANGED <<queue, matches, now, faults>>

\* The join handler alone, fed by the script, one request at a time.
NextScenario ==
  \/ Tick
  \/ \E r \in SeqReqs :
       \/ ScenarioJoinStart(r) \/ JoinValidate(r) \/ JoinAdd(r) \/ JoinFind1(r)
       \/ JoinFind2(r) \/ JoinInsert(r) \/ JoinRemove1(r) \/ JoinRemove2(r)
       \/ JoinPos1(r) \/ JoinPos2(r)

SpecScenario == InitScenario /\ [][NextScenario]_vars

\* The k-th join of the script has been answered and no store call has raised.
Answered(r, k) ==
  /\ faults = 0
  /\ budget = Len(ScenarioScript) - k
  /\ JoinDone(r)

\* C11: on empty stores, one after the other: join(A, 500) answers queued with
\* position 1; then join(B, 550) answers matched with opponent A, exactly one
\* match record exists, with players A and B and status active, and neither A
\* nor B holds a queue entry; then join(C, 800) answers queued with position 1
\* and C's entry is the only one in the queue.
C11_ThreePlayerScenario ==
  \A r \in SeqReqs :
    /\ Answered(r, 1) =>
         /\ req[r].player_id = "A" /\ req[r].score = 500
         /\ req[r].result = "queued" /\ req[r].position = 1
    /\ Answered(r, 2) =>
         /\ req[r].player_id = "B" /\ req[r].score = 550
         /\ req[r].result = "matched" /\ req[r].opponent = "A"
         /\ Len(matches) = 1
         /\ req[r].match_id = 1
         /\ MatchPlayers(matches[1]) = {"A", "B"}
         /\ matches[1].status = "active"
         /\ ~InQueue("A") /\ ~InQueue("B")
    /\ Answered(r, 3) =>
         /\ req[r].player_id = "C" /\ req[r].score = 800
         /\ req[r].result = "queued" /\ req[r].position = 1
         /\ Len(matches) = 1
         /\ \A e \in queue : e.player_id = "C"
         /\ Cardinality(queue) = 1

\* The third join of the scenario has been answered.
C11_Witness ==
  \E r \in SeqReqs :
    Answered(r, 3) /\ req[r].player_id = "C" /\ req[r].result = "queued"

\* C12: get_queue_position, when its store calls return: for a player without
\* a queue entry the position is the sentinel -1; for a queued player it is one
\* plus the number of entries whose joined_at is strictly earlier than the
\* player's own, hence 1 for the only member of the queue.
C12_PositionIsRank ==
  [][\A r \in SeqReqs :
       LET player_id == req[r].player_id IN
       (Moves(r) /\ Returns) =>
         /\ req[r].pc = "pos1" =>
              IF InQueue(player_id)
                THEN req'[r].pc = "pos2"
                ELSE req'[r].pc = "done" /\ req'[r].position = -1
         /\ req[r].pc = "pos2" =>
              /\ InQueue(player_id)
              /\ \A own \in DocsOf(player_id) :
                   req'[r].position =
                     1 + Cardinality({e \in queue : e.joined_at < own.joined_at})
              /\ queue = DocsOf(player_id) => req'[r].position = 1]_vars

\* The status of a player has been answered with position 2, another entry of
\* the queue being older.
C12_Witness ==
  \E r \in SeqReqs :
    /\ req[r].op = "status" /\ req[r].pc = "done"
    /\ req[r].position = 2
    /\ \E own \in DocsOf(req[r].player_id) :
         \E e \in queue : e.joined_at < own.joined_at

\* C13: when the upsert of add_to_queue raises, the join is answered at once
\* with the failure response (neither matched nor queued): the request makes
\* no further step, so it searches no opponent and creates no match, and the
\* queue and the matches are as they were before the call.
C13_FailedAdmissionIsReported ==
  [][\A r \in SeqReqs :
       (At(r, "join", "add") /\ Moves(r) /\ ~Returns) =>
         /\ req'[r].pc = "done"
         /\ req'[r].result = "failed"
         /\ req'[r].opponent = NoPlayer
         /\ req'[r].match_id = NoMatch
         /\ queue' = queue
         /\ matches' = matches]_vars

\* A join has been answered with the failure response while an opponent
\* within range was waiting; the player is not queued.
C13_Witness ==
  \E r \in SeqReqs :
    /\ JoinDone(r) /\ req[r].result = "failed"
    /\ ~InQueue(req[r].player_id)
    /\ Tier1(queue, req[r].player_id, req[r].score) # {}
    /\ matches = <<>>

\* C14: leave_queue, when delete_one returns: a queued player's entry is
\* deleted and the answer is success; a player without entry is answered
\* not-found and the queue is unchanged. Whether the call returns or raises,
\* the entries of the other players and the matches are unchanged.
C14_LeaveRemovesOwnEntryOnly ==
  [][\A r \in SeqReqs :
       Starts(r, "leave") =>
         LET player_id == req'[r].player_id
             Others(q) == {e \in q : e.player_id # player_id}
         IN /\ Others(queue') = Others(queue)
            /\ matches' = matches
            /\ Returns =>
                 IF InQueue(player_id)
                   THEN /\ req'[r].result = "success"
                        /\ queue' = Others(queue)
                   ELSE /\ req'[r].result = "notfound"
                        /\ queue' = queue]_vars

\* A leave has been answered success, the player's entry is gone and another
\* player still waits.
C14_Witness ==
  \E r \in SeqReqs :
    /\ req[r].op = "leave" /\ req[r].pc = "done" /\ req[r].result = "success"
    /\ ~InQueue(req[r].player_id)
    /\ queue # {}

\* C15: no step of cancel_match changes the queue, whichever way the request
\* ends (success, not-found, forbidden, failure).
C15_CancelLeavesQueue ==
  [][\A r \in SeqReqs :
       (Starts(r, "cancel") \/ (req[r].op = "cancel" /\ req[r].pc # "done" /\ Moves(r)))
         => queue' = queue]_vars

\* A cancellation has succeeded while a player waits in the queue.
C15_Witness ==
  \E r \in SeqReqs :
    /\ req[r].op = "cancel" /\ req[r].pc = "done" /\ req[r].result = "success"
    /\ matches[req[r].match_id].status = "cancelled"
    /\ queue # {}

\* C16: in every step, the matches that exist stay, under the same id and with
\* the same two players, and a cancelled match stays cancelled: the status of
\* a match only goes from active to cancelled.
C16_MatchesArePermanent ==
  [][/\ Len(matches') >= Len(matches)
     /\ \A match_id \in DOMAIN matches :
          /\ matches'[match_id].player1_id = matches[match_id].player1_id
          /\ matches'[match_id].player2_id = matches[match_id].player2_id
          /\ matches[match_id].status \in {"active", "cancelled"}
          /\ matches'[match_id].status \in {matches[match_id].status, "cancelled"}]_vars

\* A match has been cancelled by one of its players.
C16_Witness ==
  \E match_id \in DOMAIN matches :
    /\ matches[match_id].status = "cancelled"
    /\ \E r \in SeqReqs :
         /\ req[r].op = "cancel" /\ req[r].result = "success"
         /\ req[r].match_id = match_id
         /\ req[r].player_id \in MatchPlayers(matches[match_id])

\* C17: a join answered matched carries the id of a match record that exists,
\* and the players of that record are the requester and the opponent named in
\* the answer; also when a store call of create_match has raised.
C17_MatchedNamesStoredMatch ==
  \A r \in SeqReqs :
    (JoinDone(r) /\ req[r].result = "matched") =>
      /\ req[r].match_id # NoMatch
      /\ req[r].match_id \in DOMAIN matches
      /\ MatchPlayers(matches[req[r].match_id]) = {req[r].player_id, req[r].opponent}

\* Every request started so far is a join, each in its own slot: nothing but
\* these joins has touched the stores.
OnlyJoins ==
  /\ budget = MaxOps - Cardinality(Reqs)
  /\ \A r \in Reqs : req[r].op = "join"

\* C18: at the step where a join is answered queued, the position it carries
\* is at least 1, never the sentinel -1, and the player is in no match made
\* by a concurrent join. Stated for the interleavings of two joins in which
\* no store call raises.
C18_QueuedHasPosition ==
  [][\A r \in Reqs :
       ( /\ faults' = 0 /\ OnlyJoins
         /\ req[r].pc # "done"
         /\ req'[r].pc = "done" /\ req'[r].result = "queued" ) =>
           /\ req'[r].position >= 1
           /\ \A match_id \in DOMAIN matches :
                req[r].player_id \notin MatchPlayers(matches[match_id])]_vars

\* A leave of the player has been answered success, the player's entry has not
\* come back and no join of the player is under way.
HasLeft(player_id) ==
  /\ ~InQueue(player_id)
  /\ \E r \in Reqs :
       /\ req[r].op = "leave" /\ req[r].pc = "done"
       /\ req[r].result = "success" /\ req[r].player_id = player_id
  /\ \A r \in Reqs : req[r].player_id = player_id => req[r].pc = "done"

\* C19: once a leave of a player has succeeded and the player has not joined
\* again, the join of another player inserts no match naming that player, also
\* when it had selected the player as opponent before the leave. Stated for
\* the runs in which no store call raises.
C19_NoMatchAfterLeave ==
  [][\A player_id \in Players :
       (faults' = 0 /\ HasLeft(player_id) /\ Len(matches') > Len(matches)) =>
         player_id \notin MatchPlayers(matches'[Len(matches')])]_vars

\* No join is between its arrival and its answer.
NoJoinInProgress == \A r \in Reqs : req[r].op = "join" => req[r].pc = "done"

====
